---------------------------- MODULE Spec2Model ----------------------------
(* A model of the zCore object-and-memory substrate:                       *)
(*   - VMObjectPhysical::read / write   (zircon-object/src/vm/vmo/physical.rs) *)
(*   - VmObject lifecycle operations    (zircon-object/src/vm/vmo/mod.rs)      *)
(*   - sys_iommu_create / sys_bti_create / sys_bti_pin (zircon-syscall/src/ddk.rs) *)
(*   - syscall_entry, run, load_from_elf, relocate (linux-loader/src/lib.rs)   *)
(* Each subsystem has its own specification (SpecPhys, SpecVmo, SpecBti,   *)
(* SpecSys, SpecLoader); the variables of the other subsystems rest.       *)
EXTENDS Integers, Sequences, FiniteSets, TLC

(***************************************************************************)
(* Bounds of the model.                                                    *)
(***************************************************************************)
\* Bytes (or, in the loader, machine words) per page. The kernel's PAGE_SIZE
\* is 4096; the model scales it down.
PageScale == 2
\* Calls of read / write the threads make in one run, all threads together.
MaxCalls == 2
\* VmObjects created in one run.
MaxVmos == 2
\* Calls of set_name in one run.
MaxRenames == 1
\* Handles a DDK syscall may add to the process's handle table in one run.
MaxNewHandles == 2

\* The loader: program headers and .rela.dyn entries per image.
MaxSegs == 2

MaxRela == 2

PAGE_SIZE == PageScale

page_aligned(x) == x % PAGE_SIZE = 0

\* pages(size): the number of pages that cover size bytes.
pages(size) == (size + PAGE_SIZE - 1) \div PAGE_SIZE

\* The byte values and the buffer lengths the threads read and write with.
Bytes == {0, 1}

BufLens == {0, 1, 2}

\* All byte strings of a length in BufLens.
Bufs == UNION {[1..k -> Bytes] : k \in BufLens}

Zeros(n) == [k \in 1..n |-> 0]

Threads == {1, 2}

(***************************************************************************)
(* State.                                                                  *)
(***************************************************************************)
VARIABLES
    \* -- one physical VMO and the threads that read and write it ----------
    paddr,      \* VMObjectPhysical.paddr
    vpages,     \* VMObjectPhysical.pages
    data_lock,  \* VMObjectPhysical.data_lock: 0 when free, else the holder
    pmem,       \* physical memory, address -> byte
    pc,         \* per thread: the position inside read / write
    kind,       \* per thread: "read" | "write" | "none"
    off,        \* per thread: the offset argument
    buf,        \* per thread: the buffer argument
    idx,        \* per thread: bytes copied so far by pmem_read / pmem_write
    res,        \* per thread: outcome of the last call
    exp,        \* per thread: <<b>> when the call is the read-back of a write of b
    clean,      \* per thread: no other thread stored into the call's bytes
    ncalls,     \* calls of read / write made so far
    \* -- the VmObjects of the kernel --------------------------------------
    vmos,       \* the VmObjects created so far, in creation order
    next_koid,  \* the KoID the allocator hands out next
    vcall,      \* the last VmObject call: operation, target, arguments, outcome
    vkernel,    \* "running", or "panicked" once a call has panicked
    nrenames,   \* calls of set_name made so far
    \* -- the DDK syscalls of one process --------------------------------
    handles,    \* the handle table: handle value -> (object kind, rights)
    bcall,      \* the DDK syscall in flight: arguments and what it did
    \* -- the syscall trampoline, per guest thread -------------------------
    spc,        \* position inside syscall_entry ("user" when outside it)
    world,      \* the world the host thread is switched to: "user" | "kernel"
    sarg,       \* <<num, args>> of the call in progress
    sctx,       \* the thread the Syscall context is bound to (0: none)
    sret,       \* the dispatcher's result (<<>>: none yet)
    sout,       \* the value syscall_entry returned (<<>>: none yet)
    nkern,      \* switch_to_kernel() performed by the current entry
    nuser,      \* switch_to_user() performed by the current entry
    \* -- the ELF loader: one run(image, args, envs) ------------------------
    image,      \* the ELF image handed to run
    lpc,        \* position inside run
    lsize,      \* size: the span reserved for the image
    symoff,     \* syscall_entry_offset
    child,      \* the child VMAR the parent VMAR holds
    maps,       \* the mappings of the child VMAR, in creation order
    lvmos,      \* the contents of the VMOs made for the segments
    seg_i,      \* load_from_elf: the program header the loop is at
    first_vmo,  \* load_from_elf: first_vmo (0: None)
    rel_i,      \* relocate: the entry the loop is at
    thr,        \* the main thread
    stk,        \* the stack buffer
    sp,         \* the stack pointer computed for the thread
    lfail       \* where and how run failed

physVars == <<paddr, vpages, data_lock, pmem, pc, kind, off, buf, idx, res, exp, clean,
              ncalls>>

vmoVars == <<vmos, next_koid, vcall, vkernel, nrenames>>

btiVars == <<handles, bcall>>

sysVars == <<spc, world, sarg, sctx, sret, sout, nkern, nuser>>

ldVars == <<image, lpc, lsize, symoff, child, maps, lvmos, seg_i, first_vmo,
            rel_i, thr, stk, sp, lfail>>

vars == <<physVars, vmoVars, btiVars, sysVars, ldVars>>

(***************************************************************************)
(* VMObjectPhysical  (physical.rs)                                         *)
(***************************************************************************)
\* The other subsystems rest while the threads run.
PhysFrame == UNCHANGED <<vmoVars, btiVars, sysVars, ldVars>>

\* VMObjectPhysical::len
PhysLen == vpages * PAGE_SIZE

\* The address pmem_read copies from for byte k of the buffer.
ReadAddr(t, k) == paddr + off[t] + k

WriteAddrNoOffset(t, k) == paddr + k

\* The address pmem_write copies to for byte k of the buffer.
WriteAddr(t, k) == paddr + off[t] + k

\* assert!(offset + buf.len() <= self.len())
InRange(t) == off[t] + Len(buf[t]) <= PhysLen

\* The bytes [off, off + n) a call of thread t covers.
Covers(t, a) == a >= paddr + off[t] /\ a < paddr + off[t] + Len(buf[t])

\* The VMO of the tests, new_physical(0x1000, pages): one page above address 0.
PhysInit ==
    /\ paddr = PAGE_SIZE
    /\ vpages = 1
    /\ data_lock = 0
    /\ pmem = [a \in 0..(2 * PAGE_SIZE - 1) |-> 0]
    /\ pc = [t \in Threads |-> "idle"]
    /\ kind = [t \in Threads |-> "none"]
    /\ off = [t \in Threads |-> 0]
    /\ buf = [t \in Threads |-> <<>>]
    /\ idx = [t \in Threads |-> 0]
    /\ res = [t \in Threads |-> "NONE"]
    /\ exp = [t \in Threads |-> <<>>]
    /\ clean = [t \in Threads |-> TRUE]
    /\ ncalls = 0

\* A thread calls read(offset, buf) or write(offset, buf). A read that follows
\* the thread's own successful write of b, at the same offset and of the same
\* length, is marked as the read-back of b.
Call(t, k, o, b) ==
    /\ pc[t] \in {"idle", "done"}
    /\ ncalls < MaxCalls
    /\ ncalls' = ncalls + 1
    /\ LET readback == /\ pc[t] = "done" /\ kind[t] = "write" /\ res[t] = "OK"
                       /\ k = "read" /\ o = off[t] /\ Len(b) = Len(buf[t])
       IN /\ exp' = [exp EXCEPT ![t] = IF readback THEN <<buf[t]>> ELSE <<>>]
          /\ clean' = [clean EXCEPT ![t] = IF readback THEN clean[t] ELSE TRUE]
    /\ kind' = [kind EXCEPT ![t] = k]
    /\ off' = [off EXCEPT ![t] = o]
    /\ buf' = [buf EXCEPT ![t] = b]
    /\ idx' = [idx EXCEPT ![t] = 0]
    /\ res' = [res EXCEPT ![t] = "NONE"]
    /\ pc' = [pc EXCEPT ![t] = "lock"]
    /\ UNCHANGED <<paddr, vpages, data_lock, pmem>>
    /\ PhysFrame

CallRead(t) ==
    \E o \in 0..(PhysLen + 1), n \in BufLens : Call(t, "read", o, Zeros(n))

CallWrite(t) ==
    \E o \in 0..(PhysLen + 1), b \in Bufs : Call(t, "write", o, b)

\* self.data_lock.lock(): spins until the mutex is free, then takes it.
Lock(t) ==
    /\ pc[t] = "lock"
    /\ data_lock = 0
    /\ data_lock' = t
    /\ pc' = [pc EXCEPT ![t] = "guard"]
    /\ UNCHANGED <<paddr, vpages, pmem, kind, off, buf, idx, res, exp, clean, ncalls>>
    /\ PhysFrame

\* `let _ = ...lock();` binds the guard to nothing: the guard is a temporary,
\* dropped at the end of the statement, which unlocks the mutex.
DropGuard(t) ==
    /\ pc[t] = "guard"
    /\ data_lock' = 0
    /\ pc' = [pc EXCEPT ![t] = "assert"]
    /\ UNCHANGED <<paddr, vpages, pmem, kind, off, buf, idx, res, exp, clean, ncalls>>
    /\ PhysFrame

\* assert!(offset + buf.len() <= self.len()): panics when it fails.
AssertLen(t) ==
    /\ pc[t] = "assert"
    /\ IF InRange(t)
       THEN /\ pc' = [pc EXCEPT ![t] = "copy"]
            /\ res' = res
       ELSE /\ pc' = [pc EXCEPT ![t] = "panicked"]
            /\ res' = [res EXCEPT ![t] = "PANIC"]
    /\ UNCHANGED <<paddr, vpages, data_lock, pmem, kind, off, buf, idx, exp, clean, ncalls>>
    /\ PhysFrame

\* kernel_hal::pmem_read / pmem_write: a plain memory copy, one byte a step.
CopyByte(t) ==
    /\ pc[t] = "copy"
    /\ idx[t] < Len(buf[t])
    /\ IF kind[t] = "read"
       THEN /\ buf' = [buf EXCEPT ![t][idx[t] + 1] = pmem[ReadAddr(t, idx[t])]]
            /\ UNCHANGED <<pmem, clean>>
       ELSE /\ pmem' = [pmem EXCEPT ![WriteAddr(t, idx[t])] = buf[t][idx[t] + 1]]
            /\ clean' = [u \in Threads |->
                            IF u # t /\ Covers(u, WriteAddr(t, idx[t]))
                            THEN FALSE ELSE clean[u]]
            /\ buf' = buf
    /\ idx' = [idx EXCEPT ![t] = idx[t] + 1]
    /\ UNCHANGED <<paddr, vpages, data_lock, pc, kind, off, res, exp, ncalls>>
    /\ PhysFrame

\* The copy is complete and the call returns.
Return(t) ==
    /\ pc[t] = "copy"
    /\ idx[t] = Len(buf[t])
    /\ pc' = [pc EXCEPT ![t] = "done"]
    /\ res' = [res EXCEPT ![t] = "OK"]
    /\ UNCHANGED <<paddr, vpages, data_lock, pmem, kind, off, buf, idx, exp, clean, ncalls>>
    /\ PhysFrame

PhysIdle ==
    /\ paddr = PAGE_SIZE
    /\ vpages = 1
    /\ data_lock = 0
    /\ pmem = [a \in 0..(2 * PAGE_SIZE - 1) |-> 0]
    /\ pc = [t \in Threads |-> "idle"]
    /\ kind = [t \in Threads |-> "none"]
    /\ off = [t \in Threads |-> 0]
    /\ buf = [t \in Threads |-> <<>>]
    /\ idx = [t \in Threads |-> 0]
    /\ res = [t \in Threads |-> "NONE"]
    /\ exp = [t \in Threads |-> <<>>]
    /\ clean = [t \in Threads |-> TRUE]
    /\ ncalls = 0

NextPhys ==
    \E t \in Threads :
        \/ CallRead(t)
        \/ CallWrite(t)
        \/ Lock(t)
        \/ DropGuard(t)
        \/ AssertLen(t)
        \/ CopyByte(t)
        \/ Return(t)


(***************************************************************************)
(* VmObject  (vmo/mod.rs) over VMObjectPhysical (physical.rs) and          *)
(* VMObjectPaged (paged.rs)                                                *)
(***************************************************************************)
\* The other subsystems rest while VmObject calls run.
VmoFrame == UNCHANGED <<physVars, btiVars, sysVars, ldVars>>

\* KObjectBase allocates KoIDs from a global counter that never emits 0.
FirstKoid == 1

Names == {"", "a"}

\* The record of a call: inner is the call forwarded to the inner VMO (if
\* any), old the target's <<paddr, pages>> before the call.
NoCall == [op |-> "none", target |-> 0, arg |-> <<>>, result |-> "NONE", inner |-> <<>>,
           old |-> <<>>]

Old(i) == IF i \in 1..Len(vmos) THEN <<vmos[i].paddr, vmos[i].pages>> ELSE <<>>

VCall(o, t, a, r, in) ==
    [op |-> o, target |-> t, arg |-> a, result |-> r, inner |-> in, old |-> Old(t)]

\* A VmObject: KObjectBase (koid, name), parent_koid, resizable and the inner
\* VMO (kind, paddr, pages); ctor records how it was made ("new" by one of
\* the new_* constructors, "child" by create_child).
VmObj(k, pk, r, kd, pa, pg, nm, c) ==
    [koid |-> k, parent_koid |-> pk, resizable |-> r, kind |-> kd, paddr |-> pa,
     pages |-> pg, name |-> nm, ctor |-> c]

\* VMObjectTrait::len of the inner VMO
VmoLen(v) == v.pages * PAGE_SIZE

VmoInit ==
    /\ vmos = <<>>
    /\ next_koid = FirstKoid
    /\ vcall = NoCall
    /\ vkernel = "running"
    /\ nrenames = 0

VmoIdle == VmoInit

\* The kernel runs and no call on a VMO is in progress.
VmoReady == vkernel = "running" /\ vcall = NoCall

CanCreate == VmoReady /\ Len(vmos) < MaxVmos

\* VmObject::new_paged
NewPaged(pg) ==
    /\ CanCreate
    /\ vmos' = Append(vmos, VmObj(next_koid, 0, TRUE, "paged", 0, pg, "", "new"))
    /\ next_koid' = next_koid + 1
    /\ vcall' = VCall("new_paged", 0, <<pg>>, "OK", <<>>)
    /\ UNCHANGED <<vkernel, nrenames>>
    /\ VmoFrame

\* VmObject::new_paged_with_resizable
NewPagedWithResizable(r, pg) ==
    /\ CanCreate
    /\ vmos' = Append(vmos, VmObj(next_koid, 0, r, "paged", 0, pg, "", "new"))
    /\ next_koid' = next_koid + 1
    /\ vcall' = VCall("new_paged_with_resizable", 0, <<r, pg>>, "OK", <<>>)
    /\ UNCHANGED <<vkernel, nrenames>>
    /\ VmoFrame

\* VmObject::new_physical: KObjectBase::default() takes a KoID, then
\* VMObjectPhysical::new asserts that paddr is page-aligned.
NewPhysical(pa, pg) ==
    /\ CanCreate
    /\ next_koid' = next_koid + 1
    /\ IF page_aligned(pa)
       THEN /\ vmos' = Append(vmos, VmObj(next_koid, 0, TRUE, "physical", pa, pg, "",
                                          "new"))
            /\ vcall' = VCall("new_physical", 0, <<pa, pg>>, "OK", <<>>)
            /\ UNCHANGED vkernel
       ELSE /\ vcall' = VCall("new_physical", 0, <<pa, pg>>, "PANIC", <<>>)
            /\ vkernel' = "panicked"
            /\ UNCHANGED vmos
    /\ UNCHANGED nrenames
    /\ VmoFrame

\* VMObjectPaged::create_child(offset, len): a child of len bytes.
PagedChildPages(o, l) == l \div PAGE_SIZE

\* A faulty create_child: the child is made without the link to its parent.
CreateChildNoParentLink(i, r, o, l) ==
    /\ CanCreate
    /\ i \in 1..Len(vmos)
    /\ next_koid' = next_koid + 1
    /\ IF vmos[i].kind = "physical"
       THEN /\ vcall' = VCall("create_child", i, <<r, o, l>>, "PANIC",
                              <<"create_child", o, l>>)
            /\ vkernel' = "panicked"
            /\ UNCHANGED vmos
       ELSE /\ vmos' = Append(vmos, VmObj(next_koid, 0, r, "paged", 0,
                                          PagedChildPages(o, l), vmos[i].name, "child"))
            /\ vcall' = VCall("create_child", i, <<r, o, l>>, "OK",
                              <<"create_child", o, l>>)
            /\ UNCHANGED vkernel
    /\ UNCHANGED nrenames
    /\ VmoFrame

\* VmObject::create_child: KObjectBase::with_name takes a KoID and copies the
\* parent's name, then the inner create_child runs; VMObjectPhysical's is
\* unimplemented!().
CreateChild(i, r, o, l) ==
    /\ CanCreate
    /\ i \in 1..Len(vmos)
    /\ next_koid' = next_koid + 1
    /\ IF vmos[i].kind = "physical"
       THEN /\ vcall' = VCall("create_child", i, <<r, o, l>>, "PANIC",
                              <<"create_child", o, l>>)
            /\ vkernel' = "panicked"
            /\ UNCHANGED vmos
       ELSE /\ vmos' = Append(vmos, VmObj(next_koid, vmos[i].koid, r, "paged", 0,
                                          PagedChildPages(o, l), vmos[i].name, "child"))
            /\ vcall' = VCall("create_child", i, <<r, o, l>>, "OK",
                              <<"create_child", o, l>>)
            /\ UNCHANGED vkernel
    /\ UNCHANGED nrenames
    /\ VmoFrame

\* VMObjectPaged::set_len(len): the VMO becomes pages(len) pages long.
PagedSetLen(v, l) == [v EXCEPT !.pages = pages(l)]

\* VMObjectPhysical::set_len, commit, decommit and create_child are
\* unimplemented!(): the call panics.
PhysicalUnimplemented(opname, i, a) ==
    /\ vcall' = VCall(opname, i, a, "PANIC", <<opname>> \o a)
    /\ vkernel' = "panicked"
    /\ UNCHANGED vmos

SetLenIgnoresResizable(i, l) ==
    /\ VmoReady
    /\ i \in 1..Len(vmos)
    /\ vmos[i].kind = "paged"
    /\ vmos' = [vmos EXCEPT ![i] = PagedSetLen(vmos[i], l)]
    /\ vcall' = VCall("set_len", i, <<l>>, "OK", <<"set_len", l>>)
    /\ UNCHANGED <<next_koid, vkernel, nrenames>>
    /\ VmoFrame

\* VmObject::set_len: forwards to the inner VMO when resizable, else
\* Err(UNAVAILABLE).
SetLen(i, l) ==
    /\ VmoReady
    /\ i \in 1..Len(vmos)
    /\ IF vmos[i].resizable
       THEN IF vmos[i].kind = "physical"
            THEN PhysicalUnimplemented("set_len", i, <<l>>)
            ELSE /\ vmos' = [vmos EXCEPT ![i] = PagedSetLen(vmos[i], l)]
                 /\ vcall' = VCall("set_len", i, <<l>>, "OK", <<"set_len", l>>)
                 /\ UNCHANGED vkernel
       ELSE /\ vcall' = VCall("set_len", i, <<l>>, "UNAVAILABLE", <<>>)
            /\ UNCHANGED <<vmos, vkernel>>
    /\ UNCHANGED <<next_koid, nrenames>>
    /\ VmoFrame

\* commit / decommit reach the inner VMO through Deref. VMObjectPaged's
\* succeed (the frames themselves are not modelled).
InnerLifecycle(opname, i, o, l) ==
    /\ i \in 1..Len(vmos)
    /\ IF vmos[i].kind = "physical"
       THEN PhysicalUnimplemented(opname, i, <<o, l>>)
       ELSE /\ vcall' = VCall(opname, i, <<o, l>>, "OK", <<opname, o, l>>)
            /\ UNCHANGED <<vmos, vkernel>>
    /\ UNCHANGED <<next_koid, nrenames>>
    /\ VmoFrame

\* VMObjectTrait::commit
Commit(i, o, l) ==
    /\ VmoReady
    /\ InnerLifecycle("commit", i, o, l)

\* VMObjectTrait::decommit
Decommit(i, o, l) ==
    /\ VmoReady
    /\ InnerLifecycle("decommit", i, o, l)

\* KernelObject::set_name on a VmObject.
SetName(i, n) ==
    /\ VmoReady
    /\ i \in 1..Len(vmos)
    /\ nrenames < MaxRenames
    /\ vmos[i].name # n
    /\ vmos' = [vmos EXCEPT ![i].name = n]
    /\ nrenames' = nrenames + 1
    /\ vcall' = VCall("set_name", i, <<n>>, "OK", <<>>)
    /\ UNCHANGED <<next_koid, vkernel>>
    /\ VmoFrame

\* Arguments of the calls: page counts, physical addresses, and lengths
\* that are and are not page-aligned.
\* The call in progress returns to its caller.
VmoReturn ==
    /\ vkernel = "running"
    /\ vcall # NoCall
    /\ vcall' = NoCall
    /\ UNCHANGED <<vmos, next_koid, vkernel, nrenames>>
    /\ VmoFrame

PageCounts == {1, 2}

PhysAddrs == {0, 1, PAGE_SIZE}

LenArgs == {0, 1, PAGE_SIZE, PAGE_SIZE + 1, 2 * PAGE_SIZE}

AlignedArgs == {a \in LenArgs : page_aligned(a)}

NextVmo ==
    \/ \E pg \in PageCounts : NewPaged(pg)
    \/ \E r \in BOOLEAN, pg \in PageCounts : NewPagedWithResizable(r, pg)
    \/ \E pa \in PhysAddrs, pg \in PageCounts : NewPhysical(pa, pg)
    \/ \E i \in 1..MaxVmos, r \in BOOLEAN, l \in AlignedArgs : CreateChild(i, r, 0, l)
    \/ \E i \in 1..MaxVmos, l \in LenArgs : SetLen(i, l)
    \/ \E i \in 1..MaxVmos, o \in {0, PAGE_SIZE} : Commit(i, o, PAGE_SIZE)
    \/ \E i \in 1..MaxVmos, o \in {0, PAGE_SIZE} : Decommit(i, o, PAGE_SIZE)
    \/ \E i \in 1..MaxVmos, n \in Names : SetName(i, n)
    \/ VmoReturn

(***************************************************************************)
(* DDK syscalls  (zircon-syscall/src/ddk.rs)                               *)
(***************************************************************************)
\* The other subsystems rest while DDK syscalls run.
BtiFrame == UNCHANGED <<physVars, vmoVars, sysVars, ldVars>>

IOMMU_MAX_DESC_LEN == 4096

IOMMU_DESC_SIZE == 1

\* BtiOptions: the bit positions of the flags.
PERM_READ == 0

PERM_WRITE == 1

PERM_EXECUTE == 2

COMPRESS == 3

CONTIGUOUS == 4

\* options.contains(flag), after BtiOptions::from_bits_truncate
HasOpt(options, bit) == (options \div (2 ^ bit)) % 2 = 1

\* Rights of the handles the DDK syscalls create.
DEFAULT_CHANNEL == {"READ", "WRITE", "INSPECT"}

DEFAULT_BTI == {"READ", "WRITE", "MAP", "INSPECT"}

Handle(k, r, c) == [kind |-> k, rights |-> r, contiguous |-> c]

NoDdkCall == [op |-> "none", h1 |-> 0, h2 |-> 0, options |-> 0, offset |-> 0, size |-> 0,
              result |-> "NONE", pin |-> <<>>, addrs_written |-> FALSE,
              out_written |-> FALSE, nhandles |-> 0]

\* The process starts with a root resource, a BTI handle and a VMO handle,
\* the latter two with some subset of their rights.
BtiInit ==
    /\ \E br \in {DEFAULT_BTI, DEFAULT_BTI \ {"MAP"}},
          vr \in SUBSET {"MAP", "READ", "WRITE"},
          c \in BOOLEAN :
          handles = << Handle("Resource", {"INSPECT"}, FALSE),
                       Handle("Bti", br, FALSE),
                       Handle("Vmo", vr, c) >>
    /\ bcall = NoDdkCall

BtiIdle ==
    /\ handles = <<>>
    /\ bcall = NoDdkCall

\* Process::get_object::<T>: BAD_HANDLE for a value not in the table,
\* WRONG_TYPE for an object of another class.
GetObject(h, k) ==
    IF h \notin 1..Len(handles) THEN "BAD_HANDLE"
    ELSE IF handles[h].kind # k THEN "WRONG_TYPE"
    ELSE "OK"

\* Process::get_object_with_rights::<T>: as get_object, then ACCESS_DENIED
\* unless the handle's rights contain the required ones.
GetObjectWithRights(h, k, required) ==
    IF GetObject(h, k) # "OK" THEN GetObject(h, k)
    ELSE IF ~(required \subseteq handles[h].rights) THEN "ACCESS_DENIED"
    ELSE "OK"

CanAddHandle == Len(handles) < 3 + MaxNewHandles

\* A syscall is entered from user mode: none is in flight.
UserMode == bcall.op = "none"

\* The syscall returns to user mode.
SysReturn ==
    /\ bcall.op # "none"
    /\ bcall' = NoDdkCall
    /\ UNCHANGED handles
    /\ BtiFrame

DdkCall(o, a, b, opts, off0, sz, r, p, aw, ow) ==
    [op |-> o, h1 |-> a, h2 |-> b, options |-> opts, offset |-> off0, size |-> sz,
     result |-> r, pin |-> p, addrs_written |-> aw, out_written |-> ow,
     nhandles |-> Len(handles)]

\* A syscall that returns r before it has created anything.
DdkFail(o, a, b, opts, off0, sz, r) ==
    /\ bcall' = DdkCall(o, a, b, opts, off0, sz, r, <<>>, FALSE, FALSE)
    /\ UNCHANGED handles

\* proc.add_handle(Handle::new(object, rights)); out.write(handle)?; Ok(())
AddHandleAndWriteOut(o, a, b, opts, off0, sz, p, aw, k, rights, out_ok) ==
    /\ CanAddHandle
    /\ handles' = Append(handles, Handle(k, rights, FALSE))
    /\ bcall' = DdkCall(o, a, b, opts, off0, sz,
                        IF out_ok THEN "OK" ELSE "INVALID_ARGS", p, aw, out_ok)

\* sys_iommu_create
SysIommuCreate(resource, desc_ok, desc_size, out_ok) ==
    /\ UserMode
    /\ IF GetObject(resource, "Resource") # "OK"
       THEN DdkFail("iommu_create", resource, 0, 0, 0, desc_size,
                    GetObject(resource, "Resource"))
       ELSE IF desc_size > IOMMU_MAX_DESC_LEN \/ desc_size # IOMMU_DESC_SIZE
       THEN DdkFail("iommu_create", resource, 0, 0, 0, desc_size, "INVALID_ARGS")
       ELSE IF ~desc_ok
       THEN DdkFail("iommu_create", resource, 0, 0, 0, desc_size, "INVALID_ARGS")
       ELSE /\ AddHandleAndWriteOut("iommu_create", resource, 0, 0, 0, desc_size, <<>>,
                                    FALSE, "Iommu", DEFAULT_CHANNEL, out_ok)
    /\ BtiFrame

\* sys_bti_create
SysBtiCreate(iommu, options, out_ok) ==
    /\ UserMode
    /\ IF options # 0
       THEN DdkFail("bti_create", iommu, 0, options, 0, 0, "INVALID_ARGS")
       ELSE IF GetObject(iommu, "Iommu") # "OK"
       THEN DdkFail("bti_create", iommu, 0, options, 0, 0, GetObject(iommu, "Iommu"))
       ELSE /\ AddHandleAndWriteOut("bti_create", iommu, 0, options, 0, 0, <<>>, FALSE,
                                    "Bti", DEFAULT_BTI, out_ok)
    /\ BtiFrame

PermRightsIgnoreWrite(options, rights) ==
    /\ HasOpt(options, PERM_READ) => "READ" \in rights
    /\ HasOpt(options, PERM_EXECUTE) => "READ" \in rights

\* The rights each requested PERM_* option needs on the VMO handle:
\* PERM_READ needs READ, PERM_WRITE needs WRITE, PERM_EXECUTE needs READ.
PermRightsOk(options, rights) ==
    /\ HasOpt(options, PERM_READ) => "READ" \in rights
    /\ HasOpt(options, PERM_WRITE) => "WRITE" \in rights
    /\ HasOpt(options, PERM_EXECUTE) => "READ" \in rights

\* iommu_perms as built from the options
IommuPerms(options) ==
    {b \in {PERM_READ, PERM_WRITE, PERM_EXECUTE} : HasOpt(options, b)}

NoOptionConflict(options) == FALSE

\* options.contains(CONTIGUOUS) && options.contains(COMPRESS)
OptionConflict(options) == HasOpt(options, CONTIGUOUS) /\ HasOpt(options, COMPRESS)

\* sys_bti_pin. pin_ok, enc_ok, addrs_ok and out_ok are the outcomes of
\* Bti::pin, encode_addrs, addrs.write_array and out.write.
SysBtiPin(bti, options, vmo, off0, sz, pin_ok, enc_ok, addrs_ok, out_ok) ==
    /\ UserMode
    /\ IF GetObjectWithRights(bti, "Bti", {"MAP"}) # "OK"
       THEN DdkFail("bti_pin", bti, vmo, options, off0, sz,
                    GetObjectWithRights(bti, "Bti", {"MAP"}))
       ELSE IF ~page_aligned(off0) \/ ~page_aligned(sz)
       THEN DdkFail("bti_pin", bti, vmo, options, off0, sz, "INVALID_ARGS")
       ELSE IF GetObject(vmo, "Vmo") # "OK"
       THEN DdkFail("bti_pin", bti, vmo, options, off0, sz, GetObject(vmo, "Vmo"))
       ELSE IF "MAP" \notin handles[vmo].rights
       THEN DdkFail("bti_pin", bti, vmo, options, off0, sz, "ACCESS_DENIED")
       ELSE IF ~PermRightsOk(options, handles[vmo].rights)
       THEN DdkFail("bti_pin", bti, vmo, options, off0, sz, "ACCESS_DENIED")
       ELSE IF OptionConflict(options)
       THEN DdkFail("bti_pin", bti, vmo, options, off0, sz, "INVALID_ARGS")
       ELSE IF HasOpt(options, CONTIGUOUS) /\ ~handles[vmo].contiguous
       THEN DdkFail("bti_pin", bti, vmo, options, off0, sz, "INVALID_ARGS")
       ELSE IF ~pin_ok
       THEN \* bti.pin(..)? was invoked and failed
            /\ bcall' = DdkCall("bti_pin", bti, vmo, options, off0, sz, "NO_MEMORY",
                                <<IommuPerms(options)>>, FALSE, FALSE)
            /\ UNCHANGED handles
       ELSE IF ~enc_ok \/ ~addrs_ok
       THEN \* the PMT exists; encode_addrs(..)? or addrs.write_array(..)? failed
            /\ bcall' = DdkCall("bti_pin", bti, vmo, options, off0, sz, "INVALID_ARGS",
                                <<IommuPerms(options)>>, FALSE, FALSE)
            /\ UNCHANGED handles
       ELSE /\ AddHandleAndWriteOut("bti_pin", bti, vmo, options, off0, sz,
                                    <<IommuPerms(options)>>, TRUE, "Pmt", {"INSPECT"},
                                    out_ok)
    /\ BtiFrame

\* Handle values a caller in user mode may pass: those of the table and the
\* invalid 0. (No call is made while a syscall is in flight.)
HandleArgs == IF UserMode THEN 0..Len(handles) ELSE {}

\* sys_bti_pin reaches bti.pin: only then do the later outcomes matter.
ReachesPin(bti, options, vmo, off0, sz) ==
    /\ GetObjectWithRights(bti, "Bti", {"MAP"}) = "OK"
    /\ page_aligned(off0) /\ page_aligned(sz)
    /\ GetObjectWithRights(vmo, "Vmo", {"MAP"}) = "OK"
    /\ PermRightsOk(options, handles[vmo].rights)
    /\ ~OptionConflict(options)
    /\ HasOpt(options, CONTIGUOUS) => handles[vmo].contiguous

AllOk == <<TRUE, TRUE, TRUE, TRUE>>

\* Outcomes of Bti::pin, encode_addrs, addrs.write_array and out.write: at
\* most one of them fails.
PinOutcomes == {AllOk, <<FALSE, TRUE, TRUE, TRUE>>, <<TRUE, FALSE, TRUE, TRUE>>,
                <<TRUE, TRUE, FALSE, TRUE>>, <<TRUE, TRUE, TRUE, FALSE>>}

\* Option words: every combination of the five flags, and one with an
\* unknown bit set.
OptionArgs == 0..31 \cup {56}

NextBti ==
    \/ \E resource \in HandleArgs, desc_ok \in BOOLEAN,
          desc_size \in {0, IOMMU_DESC_SIZE, IOMMU_MAX_DESC_LEN + 1}, out_ok \in BOOLEAN :
          SysIommuCreate(resource, desc_ok, desc_size, out_ok)
    \/ \E iommu \in HandleArgs, options \in {0, 1}, out_ok \in BOOLEAN :
          SysBtiCreate(iommu, options, out_ok)
    \/ \E bti \in HandleArgs, options \in OptionArgs, vmo \in HandleArgs,
          al \in {<<0, PAGE_SIZE>>, <<1, PAGE_SIZE>>, <<0, PAGE_SIZE + 1>>} :
          \E outcome \in IF ReachesPin(bti, options, vmo, al[1], al[2])
                          THEN PinOutcomes ELSE {AllOk} :
             SysBtiPin(bti, options, vmo, al[1], al[2], outcome[1], outcome[2],
                       outcome[3], outcome[4])
    \/ SysReturn

(***************************************************************************)
(* The syscall trampoline  (linux-loader/src/lib.rs, syscall_entry)        *)
(***************************************************************************)
\* The other subsystems rest while the trampoline runs.
SysFrame == UNCHANGED <<physVars, vmoVars, btiVars, ldVars>>

\* Syscall numbers, argument words and results (isize: negative = error).
SyscallNums == {0, 1}

SyscallArgs == {0, 7}

SyscallRets == {-1, 0, 5}

SysInit ==
    /\ spc = [t \in Threads |-> "user"]
    /\ world = [t \in Threads |-> "user"]
    /\ sarg = [t \in Threads |-> <<>>]
    /\ sctx = [t \in Threads |-> 0]
    /\ sret = [t \in Threads |-> <<>>]
    /\ sout = [t \in Threads |-> <<>>]
    /\ nkern = [t \in Threads |-> 0]
    /\ nuser = [t \in Threads |-> 0]

SysIdle == SysInit

\* User code calls syscall_entry(num, a0..a5).
SyscallEnter(t, num, a) ==
    /\ spc[t] = "user"
    /\ spc' = [spc EXCEPT ![t] = "entry"]
    /\ sarg' = [sarg EXCEPT ![t] = <<num, a>>]
    /\ sctx' = [sctx EXCEPT ![t] = 0]
    /\ sret' = [sret EXCEPT ![t] = <<>>]
    /\ sout' = [sout EXCEPT ![t] = <<>>]
    /\ nkern' = [nkern EXCEPT ![t] = 0]
    /\ nuser' = [nuser EXCEPT ![t] = 0]
    /\ UNCHANGED world
    /\ SysFrame

\* unsafe { switch_to_kernel(); }
SwitchToKernel(t) ==
    /\ spc[t] = "entry"
    /\ world' = [world EXCEPT ![t] = "kernel"]
    /\ nkern' = [nkern EXCEPT ![t] = nkern[t] + 1]
    /\ spc' = [spc EXCEPT ![t] = "in_kernel"]
    /\ UNCHANGED <<sarg, sctx, sret, sout, nuser>>
    /\ SysFrame

\* let syscall = Syscall { thread: Thread::current() };
BuildContext(t) ==
    /\ spc[t] = "in_kernel"
    /\ sctx' = [sctx EXCEPT ![t] = t]
    /\ spc' = [spc EXCEPT ![t] = "dispatch"]
    /\ UNCHANGED <<world, sarg, sret, sout, nkern, nuser>>
    /\ SysFrame

\* let ret = syscall.syscall(num, [a0, .., a5]); the dispatcher returns.
Dispatch(t, r) ==
    /\ spc[t] = "dispatch"
    /\ sret' = [sret EXCEPT ![t] = <<r>>]
    /\ spc' = [spc EXCEPT ![t] = "dispatched"]
    /\ UNCHANGED <<world, sarg, sctx, sout, nkern, nuser>>
    /\ SysFrame

\* The dispatcher panics: control leaves syscall_entry by the panic (unwind
\* or abort); no statement after the call runs.
DispatchPanic(t) ==
    /\ spc[t] = "dispatch"
    /\ spc' = [spc EXCEPT ![t] = "panicked"]
    /\ UNCHANGED <<world, sarg, sctx, sret, sout, nkern, nuser>>
    /\ SysFrame

\* unsafe { switch_to_user(); }
SwitchToUser(t) ==
    /\ spc[t] = "dispatched"
    /\ world' = [world EXCEPT ![t] = "user"]
    /\ nuser' = [nuser EXCEPT ![t] = nuser[t] + 1]
    /\ spc' = [spc EXCEPT ![t] = "leaving"]
    /\ UNCHANGED <<sarg, sctx, sret, sout, nkern>>
    /\ SysFrame

\* ret: syscall_entry returns the dispatcher's result.
SyscallReturn(t) ==
    /\ spc[t] = "leaving"
    /\ sout' = [sout EXCEPT ![t] = sret[t]]
    /\ spc' = [spc EXCEPT ![t] = "user"]
    /\ UNCHANGED <<world, sarg, sctx, sret, nkern, nuser>>
    /\ SysFrame

NextSys ==
    \E t \in Threads :
        \/ \E num \in SyscallNums, a \in SyscallArgs : SyscallEnter(t, num, a)
        \/ SwitchToKernel(t)
        \/ BuildContext(t)
        \/ \E r \in SyscallRets : Dispatch(t, r)
        \/ DispatchPanic(t)
        \/ SwitchToUser(t)
        \/ SyscallReturn(t)

(***************************************************************************)
(* The ELF loader  (linux-loader/src/lib.rs: run, ElfExt, VmarExt,         *)
(* make_vmo).  Addresses and sizes of the loader count memory cells that   *)
(* hold one machine word each; a page has PAGE_SIZE cells.                 *)
(***************************************************************************)
\* The other subsystems rest while the loader runs.
LdFrame == UNCHANGED <<physVars, vmoVars, btiVars, sysVars>>

\* syscall_entry as usize: the address of the trampoline.
Trampoline == 99

\* The word the image's file data holds in every cell of a segment.
FileWord == 7

\* What a read of an address with no mapping behind it yields.
Unmapped == -1

\* Option<u64>::None of get_symbol_address.
NoSymbol == -1

REL_GOT == 6

REL_PLT == 7

REL_RELATIVE == 8

STACK_SIZE == 32768

\* Addresses the allocator may hand out for the stack buffer.
StackAddrs == {65544}

\* Load bases a parent VMAR may pick for a child of any size.
VmarBases == {2 * PAGE_SIZE, 3 * PAGE_SIZE}

\* -- the family of ELF images ---------------------------------------------
Ph(ty, va, msz, fsz, dk, fl) ==
    [type |-> ty, virtual_addr |-> va, mem_size |-> msz, file_size |-> fsz,
     data |-> dk, flags |-> fl]

SegFlags == {{"R", "X"}, {"R", "W"}}

ProgramHeaders ==
    {Ph("LOAD", va, msz, msz, "Undefined", fl) :
        va \in {0, 1, PAGE_SIZE}, msz \in {1, PAGE_SIZE}, fl \in SegFlags}
    \cup {Ph("NOTE", 0, 1, 1, "Note64", {"R"}),
          Ph("LOAD", 0, 1, 1, "Dynamic64", {"R", "W"})}

Rela(ty, o, s, a) == [type |-> ty, offset |-> o, symbol |-> s, addend |-> a]

RelaEntries ==
    {Rela(REL_RELATIVE, 0, 0, 1), Rela(REL_RELATIVE, PAGE_SIZE, 0, 0),
     Rela(REL_GOT, 0, 1, 1), Rela(REL_PLT, PAGE_SIZE, 0, 0),
     Rela(5, 0, 0, 0)}

\* .dynsym: entry 0 is undefined (shndx 0), entry 1 is defined.
DynSyms == <<[shndx |-> 0, value |-> 0], [shndx |-> 1, value |-> 1]>>

SeqsUpTo(S, n) == UNION {[1..k -> S] : k \in 0..n}

SymbolValues == {NoSymbol, 0, PAGE_SIZE}

EntryPoints == {1}

\* sections: "ok", or which of .rela.dyn / .dynsym is missing or malformed.
Images ==
    {[segs |-> s, symbol |-> y, sections |-> "ok", rela |-> r, entry |-> e] :
        s \in SeqsUpTo(ProgramHeaders, MaxSegs) \ {<<>>},
        y \in SymbolValues, r \in SeqsUpTo(RelaEntries, MaxRela),
        e \in EntryPoints}
    \cup
    {[segs |-> s, symbol |-> y, sections |-> x, rela |-> <<>>, entry |-> e] :
        s \in SeqsUpTo(ProgramHeaders, MaxSegs) \ {<<>>},
        y \in SymbolValues, x \in {"no_rela", "bad_rela", "no_dynsym"},
        e \in EntryPoints}

NoImage == [segs |-> <<>>, symbol |-> NoSymbol, sections |-> "ok",
            rela |-> <<>>, entry |-> 0]

\* Three smaller families of images, each varying what one stage of run
\* reads: the program headers (staging), the sections and .rela.dyn
\* (relocation), and the segment flags (permission projection).
StageImages ==
    {[segs |-> s, symbol |-> 0, sections |-> "ok", rela |-> <<>>,
      entry |-> e] :
        s \in SeqsUpTo(ProgramHeaders, MaxSegs) \ {<<>>}, e \in EntryPoints}

RelocLayouts ==
    {<<Ph("LOAD", 0, PAGE_SIZE, PAGE_SIZE, "Undefined", {"R", "W"})>>,
     <<Ph("LOAD", 0, PAGE_SIZE, PAGE_SIZE, "Undefined", {"R", "X"}),
       Ph("LOAD", PAGE_SIZE, PAGE_SIZE, PAGE_SIZE, "Undefined", {"R", "W"})>>,
     <<Ph("LOAD", PAGE_SIZE, 1, 1, "Undefined", {"R", "W"})>>}

RelocImages ==
    {[segs |-> s, symbol |-> y, sections |-> "ok", rela |-> r, entry |-> e] :
        s \in RelocLayouts, y \in {0, PAGE_SIZE},
        r \in SeqsUpTo(RelaEntries, MaxRela), e \in EntryPoints}
    \cup
    {[segs |-> s, symbol |-> y, sections |-> x, rela |-> <<>>, entry |-> e] :
        s \in RelocLayouts, y \in {0, PAGE_SIZE},
        x \in {"no_rela", "bad_rela", "no_dynsym"}, e \in EntryPoints}

\* Segment k lies on page k - 1 and has any of the eight flag combinations.
FlagLayouts ==
    UNION {{[k \in 1..n |->
                Ph("LOAD", (k - 1) * PAGE_SIZE, 1, 1, "Undefined", f[k])] :
            f \in [1..n -> SUBSET {"R", "W", "X"}]} : n \in 1..MaxSegs}

FlagImages ==
    {[segs |-> s, symbol |-> 0, sections |-> "ok", rela |-> <<>>,
      entry |-> e] : s \in FlagLayouts, e \in EntryPoints}

\* -- pure parts -------------------------------------------------------------
SetMax(S) == CHOOSE m \in S : \A x \in S : x <= m

LoadIndices(elf) == {i \in 1..Len(elf.segs) : elf.segs[i].type = "LOAD"}

\* A faulty size: the span of the longest segment, its address left out.
load_segment_size_mem_only(elf) ==
    SetMax({pages(elf.segs[i].mem_size) : i \in LoadIndices(elf)}) * PAGE_SIZE

\* ElfExt::load_segment_size (defined when the image has a LOAD segment).
load_segment_size(elf) ==
    SetMax({pages(elf.segs[i].virtual_addr + elf.segs[i].mem_size) :
                i \in LoadIndices(elf)}) * PAGE_SIZE

\* VMObjectPaged::write: copies when offset + |buf| <= len, otherwise fails
\* and leaves the contents alone.
VmoWriteOk(data, offset, wbuf) == offset + Len(wbuf) <= Len(data)

VmoWrite(data, offset, wbuf) ==
    IF VmoWriteOk(data, offset, wbuf)
    THEN [k \in 1..Len(data) |->
            IF k - 1 >= offset /\ k - 1 < offset + Len(wbuf)
            THEN wbuf[k - offset] ELSE data[k]]
    ELSE data

\* make_vmo: the error it returns ("OK" if none) and the VMO's contents.
make_vmo_page_offset(ph) == ph.virtual_addr % PAGE_SIZE

make_vmo_error(ph) == IF ph.data = "Undefined" THEN "OK" ELSE "INVALID_ARGS"

make_vmo(ph) ==
    VmoWrite(Zeros(pages(ph.mem_size + make_vmo_page_offset(ph)) * PAGE_SIZE),
             make_vmo_page_offset(ph),
             [k \in 1..ph.file_size |-> FileWord])

\* A faulty projection: READ comes along with WRITE and EXECUTE.
to_mmu_flags_implicit_read(fl) ==
    (IF fl # {} THEN {"READ"} ELSE {})
    \cup (IF "W" \in fl THEN {"WRITE"} ELSE {})
    \cup (IF "X" \in fl THEN {"EXECUTE"} ELSE {})

\* Flags::to_mmu_flags
to_mmu_flags(fl) ==
    (IF "R" \in fl THEN {"READ"} ELSE {})
    \cup (IF "W" \in fl THEN {"WRITE"} ELSE {})
    \cup (IF "X" \in fl THEN {"EXECUTE"} ELSE {})

\* VmAddressRegion::map_at on a VMAR of the given size holding mappings ms.
Overlaps(m, offset, len) == offset < m.offset + m.len /\ m.offset < offset + len

map_at_error(ms, size, offset, len) ==
    IF ~page_aligned(offset) \/ ~page_aligned(len) THEN "INVALID_ARGS"
    ELSE IF offset + len > size THEN "INVALID_ARGS"
    ELSE IF \E k \in 1..Len(ms) : Overlaps(ms[k], offset, len)
         THEN "INVALID_ARGS"
    ELSE "OK"

AlignDown16(x) == x - (x % 16)

\* ProcInitInfo::push_at: the stack pointer below the pushed init info.
InitInfoSize == 256

push_at(p) == p - InitInfoSize

\* -- state of one run(image, args, envs) ------------------------------------
NoChild == [present |-> FALSE, base |-> 0, size |-> 0]

NoFailure == [step |-> "", reason |-> "", how |-> ""]

NoThread == [state |-> "Initial", entry |-> 0, sp |-> 0, arg1 |-> 0,
             arg2 |-> 0, starts |-> 0]

NoStack == [state |-> "none", ptr |-> 0]

LdRest ==
    /\ lsize = 0
    /\ symoff = 0
    /\ child = NoChild
    /\ maps = <<>>
    /\ lvmos = <<>>
    /\ seg_i = 0
    /\ first_vmo = 0
    /\ rel_i = 0
    /\ thr = NoThread
    /\ stk = NoStack
    /\ sp = 0
    /\ lfail = NoFailure

LdInit ==
    /\ image \in Images
    /\ lpc = "size"
    /\ LdRest

\* run on an image of one of the three smaller families.
LdInitFamilies ==
    /\ image \in StageImages \cup RelocImages \cup FlagImages
    /\ lpc = "size"
    /\ LdRest

LdIdle ==
    /\ image = NoImage
    /\ lpc = "idle"
    /\ LdRest

\* The mappings of the child VMAR that cover the cell at offset o.
MappingsAt(o) ==
    {k \in 1..Len(maps) : maps[k].offset <= o /\ o < maps[k].offset + maps[k].len}

\* The word user code reads at address a of the process.
MemAt(a) ==
    IF child.present /\ MappingsAt(a - child.base) # {}
    THEN LET m == maps[CHOOSE k \in MappingsAt(a - child.base) : TRUE]
         IN  lvmos[m.vmo][m.vmo_offset + (a - child.base - m.offset) + 1]
    ELSE Unmapped

\* A step of run fails: the callee returned an error that run unwraps
\* (how = "returned") or panicked itself (how = "panicked"); either way
\* run ends in a panic, and nothing else is touched.
LdFail(step, reason, how) ==
    /\ lpc' = "panicked"
    /\ lfail' = [step |-> step, reason |-> reason, how |-> how]

\* let size = elf.load_segment_size();
LoadSegmentSize ==
    /\ lpc = "size"
    /\ IF LoadIndices(image) = {}
       THEN /\ LdFail("load_segment_size", "no LOAD segment", "panicked")
            /\ UNCHANGED lsize
       ELSE /\ lsize' = load_segment_size(image)
            /\ lpc' = "symbol"
            /\ UNCHANGED lfail
    /\ UNCHANGED <<image, symoff, child, maps, lvmos, seg_i, first_vmo,
                   rel_i, thr, stk, sp>>
    /\ LdFrame

\* elf.get_symbol_address("rcore_syscall_entry").expect(..)
GetSymbolAddress ==
    /\ lpc = "symbol"
    /\ IF image.symbol = NoSymbol
       THEN /\ LdFail("get_symbol_address", "failed to locate syscall entry",
                      "panicked")
            /\ UNCHANGED symoff
       ELSE /\ symoff' = image.symbol
            /\ lpc' = "reserve"
            /\ UNCHANGED lfail
    /\ UNCHANGED <<image, lsize, child, maps, lvmos, seg_i, first_vmo,
                   rel_i, thr, stk, sp>>
    /\ LdFrame

\* let vmar = vmar.create_child(None, size).unwrap();
VmarCreateChild(ok, b) ==
    /\ lpc = "reserve"
    /\ IF ok
       THEN /\ child' = [present |-> TRUE, base |-> b, size |-> lsize]
            /\ seg_i' = 1
            /\ lpc' = "load"
            /\ UNCHANGED lfail
       ELSE /\ LdFail("create_child", "NO_MEMORY", "returned")
            /\ UNCHANGED <<child, seg_i>>
    /\ UNCHANGED <<image, lsize, symoff, maps, lvmos, first_vmo, rel_i, thr,
                   stk, sp>>
    /\ LdFrame

\* One turn of the loop of load_from_elf.
LoadSegment ==
    /\ lpc = "load"
    /\ seg_i <= Len(image.segs)
    /\ LET ph == image.segs[seg_i]
           vmo == make_vmo(ph)
           offset == (ph.virtual_addr \div PAGE_SIZE) * PAGE_SIZE
           merr == map_at_error(maps, child.size, offset, Len(vmo))
       IN  IF ph.type # "LOAD"
           THEN /\ seg_i' = seg_i + 1
                /\ UNCHANGED <<lpc, lfail, maps, lvmos, first_vmo>>
           ELSE IF make_vmo_error(ph) # "OK"
           THEN /\ LdFail("make_vmo", make_vmo_error(ph), "returned")
                /\ UNCHANGED <<seg_i, maps, lvmos, first_vmo>>
           ELSE IF merr # "OK"
           THEN /\ LdFail("map_at", merr, "returned")
                /\ UNCHANGED <<seg_i, maps, lvmos, first_vmo>>
           ELSE /\ lvmos' = Append(lvmos, vmo)
                /\ maps' = Append(maps,
                              [offset |-> offset, vmo |-> Len(lvmos) + 1,
                               vmo_offset |-> 0, len |-> Len(vmo),
                               flags |-> to_mmu_flags(ph.flags)])
                /\ first_vmo' = IF first_vmo = 0 THEN Len(lvmos) + 1
                                ELSE first_vmo
                /\ seg_i' = seg_i + 1
                /\ UNCHANGED <<lpc, lfail>>
    /\ UNCHANGED <<image, lsize, symoff, child, rel_i, thr, stk, sp>>
    /\ LdFrame

\* Ok(first_vmo.unwrap())
LoadFromElfReturn ==
    /\ lpc = "load"
    /\ seg_i > Len(image.segs)
    /\ IF first_vmo = 0
       THEN LdFail("load_from_elf", "no LOAD segment", "panicked")
       ELSE lpc' = "patch" /\ UNCHANGED lfail
    /\ UNCHANGED <<image, lsize, symoff, child, maps, lvmos, seg_i,
                   first_vmo, rel_i, thr, stk, sp>>
    /\ LdFrame

\* vmo.write(syscall_entry_offset, &(syscall_entry as usize).to_ne_bytes());
\* on the VMO load_from_elf returned; the outcome of the write is dropped.
PatchSyscallEntry ==
    /\ lpc = "patch"
    /\ lvmos' = [lvmos EXCEPT ![first_vmo] =
                    VmoWrite(lvmos[first_vmo], symoff, <<Trampoline>>)]
    /\ lpc' = "relocate"
    /\ UNCHANGED <<image, lsize, symoff, child, maps, seg_i, first_vmo,
                   rel_i, thr, stk, sp, lfail>>
    /\ LdFrame

\* relocate up to its loop: the sections are looked up.
RelocateBegin ==
    /\ lpc = "relocate"
    /\ IF image.sections = "no_rela"
       THEN LdFail("relocate", ".rela.dyn not found", "returned")
                /\ UNCHANGED rel_i
       ELSE IF image.sections = "bad_rela"
       THEN LdFail("relocate", "bad .rela.dyn", "returned")
                /\ UNCHANGED rel_i
       ELSE IF image.sections = "no_dynsym"
       THEN LdFail("relocate", ".dynsym not found", "returned")
                /\ UNCHANGED rel_i
       ELSE rel_i' = 1 /\ lpc' = "reloc" /\ UNCHANGED lfail
    /\ UNCHANGED <<image, lsize, symoff, child, maps, lvmos, seg_i,
                   first_vmo, thr, stk, sp>>
    /\ LdFrame

\* A faulty ptr.write: the value goes out without the load base.
PtrWriteNoBase(offset, value, enforced) ==
    IF MappingsAt(offset) = {}
    THEN /\ lpc' = "faulted"
         /\ lfail' = [step |-> "relocate", reason |-> "unmapped",
                      how |-> "faulted"]
         /\ UNCHANGED <<lvmos, rel_i>>
    ELSE LET m == maps[CHOOSE k \in MappingsAt(offset) : TRUE]
         IN  IF "WRITE" \notin m.flags /\ enforced
             THEN /\ lpc' = "faulted"
                  /\ lfail' = [step |-> "relocate", reason |-> "read-only",
                               how |-> "faulted"]
                  /\ UNCHANGED <<lvmos, rel_i>>
             ELSE /\ lvmos' = [lvmos EXCEPT ![m.vmo] =
                                 VmoWrite(lvmos[m.vmo],
                                          m.vmo_offset + offset - m.offset,
                                          <<value - child.base>>)]
                  /\ rel_i' = rel_i + 1
                  /\ UNCHANGED <<lpc, lfail>>

\* ptr.write(value) at base + offset: through the mapping that covers the
\* address.  With no mapping there the write faults; on a mapping without
\* WRITE it faults or lands, as the platform enforces the flags or not.
PtrWrite(offset, value, enforced) ==
    IF MappingsAt(offset) = {}
    THEN /\ lpc' = "faulted"
         /\ lfail' = [step |-> "relocate", reason |-> "unmapped",
                      how |-> "faulted"]
         /\ UNCHANGED <<lvmos, rel_i>>
    ELSE LET m == maps[CHOOSE k \in MappingsAt(offset) : TRUE]
         IN  IF "WRITE" \notin m.flags /\ enforced
             THEN /\ lpc' = "faulted"
                  /\ lfail' = [step |-> "relocate", reason |-> "read-only",
                               how |-> "faulted"]
                  /\ UNCHANGED <<lvmos, rel_i>>
             ELSE /\ lvmos' = [lvmos EXCEPT ![m.vmo] =
                                 VmoWrite(lvmos[m.vmo],
                                          m.vmo_offset + offset - m.offset,
                                          <<value>>)]
                  /\ rel_i' = rel_i + 1
                  /\ UNCHANGED <<lpc, lfail>>

\* One turn of the loop of relocate.
RelocateEntry(enforced) ==
    /\ lpc = "reloc"
    /\ rel_i <= Len(image.rela)
    /\ LET entry == image.rela[rel_i]
           dynsym == DynSyms[entry.symbol + 1]
       IN  IF entry.type \in {REL_GOT, REL_PLT}
           THEN IF dynsym.shndx = 0
                THEN /\ LdFail("relocate", "need to find symbol", "panicked")
                     /\ UNCHANGED <<lvmos, rel_i>>
                ELSE PtrWrite(entry.offset,
                              child.base + dynsym.value + entry.addend,
                              enforced)
           ELSE IF entry.type = REL_RELATIVE
           THEN PtrWrite(entry.offset, child.base + entry.addend, enforced)
           ELSE /\ LdFail("relocate", "unknown type", "panicked")
                /\ UNCHANGED <<lvmos, rel_i>>
    /\ UNCHANGED <<image, lsize, symoff, child, maps, seg_i, first_vmo, thr,
                   stk, sp>>
    /\ LdFrame

\* Ok(()) of relocate, unwrapped by run.
RelocateReturn ==
    /\ lpc = "reloc"
    /\ rel_i > Len(image.rela)
    /\ lpc' = "stack"
    /\ UNCHANGED <<image, lsize, symoff, child, maps, lvmos, seg_i,
                   first_vmo, rel_i, thr, stk, sp, lfail>>
    /\ LdFrame

\* The stack buffer is allocated, its top aligned, the init info pushed.
BuildStack(p) ==
    /\ lpc = "stack"
    /\ stk' = [state |-> "live", ptr |-> p]
    /\ sp' = push_at(AlignDown16(p + STACK_SIZE))
    /\ lpc' = "start"
    /\ UNCHANGED <<image, lsize, symoff, child, maps, lvmos, seg_i,
                   first_vmo, rel_i, thr, lfail>>
    /\ LdFrame

\* A faulty start: the entry point goes out without the load base.
ThreadStartEntryOnly ==
    /\ lpc = "start"
    /\ IF thr.state = "Initial"
       THEN /\ thr' = [state |-> "Running", entry |-> image.entry, sp |-> sp,
                       arg1 |-> 0, arg2 |-> 0, starts |-> thr.starts + 1]
            /\ lpc' = "started"
            /\ UNCHANGED lfail
       ELSE /\ LdFail("start", "BAD_STATE", "returned")
            /\ UNCHANGED thr
    /\ UNCHANGED <<image, lsize, symoff, child, maps, lvmos, seg_i,
                   first_vmo, rel_i, stk, sp>>
    /\ LdFrame

\* thread.start(entry, sp, 0, 0).expect(..)
ThreadStart ==
    /\ lpc = "start"
    /\ IF thr.state = "Initial"
       THEN /\ thr' = [state |-> "Running",
                       entry |-> child.base + image.entry, sp |-> sp,
                       arg1 |-> 0, arg2 |-> 0, starts |-> thr.starts + 1]
            /\ lpc' = "started"
            /\ UNCHANGED lfail
       ELSE /\ LdFail("start", "BAD_STATE", "returned")
            /\ UNCHANGED thr
    /\ UNCHANGED <<image, lsize, symoff, child, maps, lvmos, seg_i,
                   first_vmo, rel_i, stk, sp>>
    /\ LdFrame

\* run returns proc; its locals, the stack buffer among them, are dropped.
RunReturn ==
    /\ lpc = "started"
    /\ stk' = [stk EXCEPT !.state = "freed"]
    /\ lpc' = "done"
    /\ UNCHANGED <<image, lsize, symoff, child, maps, lvmos, seg_i,
                   first_vmo, rel_i, thr, sp, lfail>>
    /\ LdFrame

NextLoader ==
    \/ LoadSegmentSize
    \/ GetSymbolAddress
    \/ \E b \in VmarBases : VmarCreateChild(TRUE, b)
    \/ VmarCreateChild(FALSE, 0)
    \/ LoadSegment
    \/ LoadFromElfReturn
    \/ PatchSyscallEntry
    \/ RelocateBegin
    \/ \E enforced \in BOOLEAN : RelocateEntry(enforced)
    \/ RelocateReturn
    \/ \E p \in StackAddrs : BuildStack(p)
    \/ ThreadStart
    \/ RunReturn

(***************************************************************************)
(* Specifications                                                          *)
(***************************************************************************)
InitPhysSpec == PhysInit /\ VmoIdle /\ BtiIdle /\ SysIdle /\ LdIdle

SpecPhys == InitPhysSpec /\ [][NextPhys]_vars

InitVmoSpec == VmoInit /\ PhysIdle /\ BtiIdle /\ SysIdle /\ LdIdle

SpecVmo == InitVmoSpec /\ [][NextVmo]_vars

InitBtiSpec == BtiInit /\ PhysIdle /\ VmoIdle /\ SysIdle /\ LdIdle

SpecBti == InitBtiSpec /\ [][NextBti]_vars

InitSysSpec == SysInit /\ PhysIdle /\ VmoIdle /\ BtiIdle /\ LdIdle

SpecSys == InitSysSpec /\ [][NextSys]_vars

InitLoaderSpec == LdInit /\ PhysIdle /\ VmoIdle /\ BtiIdle /\ SysIdle

SpecLoader == InitLoaderSpec /\ [][NextLoader]_vars

InitLoaderFamiliesSpec ==
    LdInitFamilies /\ PhysIdle /\ VmoIdle /\ BtiIdle /\ SysIdle

SpecLoaderFamilies == InitLoaderFamiliesSpec /\ [][NextLoader]_vars


(***************************************************************************)
(* Claims about the physical VMO (SpecPhys)                                *)
(***************************************************************************)
\* Thread t is inside pmem_read / pmem_write with bytes still to copy.
Copying(t) == pc[t] = "copy" /\ idx[t] < Len(buf[t])

\* C1: read and write on one physical VMO are mutually exclusive: the copies
\* of two concurrent calls never overlap in time, the data_lock being held
\* for the whole of each copy.
C1_CopiesNeverOverlap ==
    \A t \in Threads : \A u \in Threads \ {t} : ~(Copying(t) /\ Copying(u))

\* C3: a read or write with offset + len <= vmo.len succeeds; one with
\* offset + len > vmo.len returns INVALID_ARGS and copies nothing.
C3_OutOfRangeIsInvalidArgs ==
    \A t \in Threads :
        pc[t] \in {"done", "panicked"} =>
            IF InRange(t)
            THEN res[t] = "OK"
            ELSE res[t] = "INVALID_ARGS" /\ idx[t] = 0

\* C4: a successful write(o, b) followed by read(o, |b|), with no other
\* write to those bytes in between, reads exactly b.
C4_WriteThenReadRoundTrip ==
    \A t \in Threads :
        (/\ pc[t] = "done" /\ kind[t] = "read" /\ res[t] = "OK"
         /\ exp[t] # <<>> /\ clean[t])
        => buf[t] = exp[t][1]

\* A read-back of a non-zero byte string has completed undisturbed.
C4_Witness ==
    \E t \in Threads :
        /\ pc[t] = "done" /\ kind[t] = "read" /\ res[t] = "OK"
        /\ exp[t] # <<>> /\ clean[t]
        /\ Len(buf[t]) > 0
        /\ \E k \in 1..Len(buf[t]) : exp[t][1][k] # 0

(***************************************************************************)
(* Claims about VmObject (SpecVmo)                                         *)
(***************************************************************************)
\* C2: on a VMO made by new_physical, set_len, commit, decommit and
\* create_child report NOT_SUPPORTED to the caller without aborting the
\* kernel, and leave paddr and length as they were.
C2_PhysicalLifecycleNotSupported ==
    (/\ vcall.op \in {"set_len", "commit", "decommit", "create_child"}
     /\ vmos[vcall.target].kind = "physical")
    => /\ vcall.result = "NOT_SUPPORTED"
       /\ vkernel = "running"
       /\ vcall.old = <<vmos[vcall.target].paddr, vmos[vcall.target].pages>>

\* C5 (state part): set_len on a VMO that is not resizable returns an error,
\* does not call the inner set_len and leaves len() unchanged; on a
\* resizable paged VMO it returns Ok and the inner set_len is applied with
\* the requested length.
C5_SetLenOutcome ==
    vcall.op = "set_len" =>
        LET v == vmos[vcall.target]
            l == vcall.arg[1]
        IN /\ ~v.resizable =>
                /\ vcall.result = "UNAVAILABLE"
                /\ vcall.inner = <<>>
                /\ v.pages = vcall.old[2]
           /\ (v.resizable /\ v.kind = "paged") =>
                /\ vcall.result = "OK"
                /\ vcall.inner = <<"set_len", l>>
                /\ VmoLen(v) = pages(l) * PAGE_SIZE

\* C5 (step part): no step changes the resizable flag of an existing VMO.
C5_ResizableStable ==
    \A i \in 1..Len(vmos) :
        /\ i \in 1..Len(vmos')
        /\ vmos'[i].resizable = vmos[i].resizable

\* C5: set_len is allowed only when the VMO is resizable, and the resizable
\* flag of a VMO never changes after creation.
C5_SetLenOnlyWhenResizable == []C5_SetLenOutcome /\ [][C5_ResizableStable]_vars

\* set_len has been refused on a VMO that is not resizable, after it has been
\* applied to a resizable paged VMO (only set_len(0) leaves a first VMO of
\* no pages).
C5_Witness ==
    /\ vcall.op = "set_len"
    /\ vcall.result = "UNAVAILABLE"
    /\ vcall.arg[1] # VmoLen(vmos[vcall.target])
    /\ vmos[1].pages = 0

(***************************************************************************)
(* Claims about the DDK syscalls (SpecBti)                                 *)
(***************************************************************************)
\* The rights the claims require on the VMO handle for the PERM_* bits.
RequiredRights(options) ==
    (IF HasOpt(options, PERM_READ) THEN {"READ"} ELSE {})
    \cup (IF HasOpt(options, PERM_WRITE) THEN {"WRITE"} ELSE {})
    \cup (IF HasOpt(options, PERM_EXECUTE) THEN {"READ"} ELSE {})

\* The call in flight is a sys_bti_pin whose handles name a BTI and a VMO
\* and whose offset and size are page-aligned.
PinOnTypedHandles ==
    /\ bcall.op = "bti_pin"
    /\ bcall.h1 \in 1..Len(handles) /\ handles[bcall.h1].kind = "Bti"
    /\ bcall.h2 \in 1..Len(handles) /\ handles[bcall.h2].kind = "Vmo"
    /\ page_aligned(bcall.offset) /\ page_aligned(bcall.size)

\* Every right the rights gate asks for is present.
PinRightsPresent ==
    /\ "MAP" \in handles[bcall.h1].rights
    /\ "MAP" \in handles[bcall.h2].rights
    /\ RequiredRights(bcall.options) \subseteq handles[bcall.h2].rights

\* C6: sys_bti_pin with both COMPRESS and CONTIGUOUS, aligned offset and
\* size and all the rights it needs fails with INVALID_ARGS; bti.pin is not
\* invoked, nothing is written to addrs or out, no handle is added.
C6_CompressContiguousRejected ==
    (/\ PinOnTypedHandles
     /\ PinRightsPresent
     /\ HasOpt(bcall.options, COMPRESS) /\ HasOpt(bcall.options, CONTIGUOUS))
    => /\ bcall.result = "INVALID_ARGS"
       /\ bcall.pin = <<>>
       /\ ~bcall.addrs_written /\ ~bcall.out_written
       /\ Len(handles) = bcall.nhandles

\* The spec's scenario: CONTIGUOUS | COMPRESS | PERM_READ on a contiguous VMO
\* whose handle carries MAP and READ has been rejected.
C6_Witness ==
    /\ PinOnTypedHandles
    /\ PinRightsPresent
    /\ bcall.options = 2 ^ CONTIGUOUS + 2 ^ COMPRESS + 2 ^ PERM_READ
    /\ handles[bcall.h2].contiguous
    /\ bcall.result = "INVALID_ARGS"

\* C7: bti.pin is invoked only if the BTI handle has MAP, the VMO handle has
\* MAP and the VMO handle has the right each requested PERM_* option needs;
\* an aligned call that lacks one of them fails with ACCESS_DENIED and pins
\* nothing.
C7_RightsGate ==
    /\ (bcall.op = "bti_pin" /\ bcall.pin # <<>>)
       => (PinOnTypedHandles /\ PinRightsPresent)
    /\ (PinOnTypedHandles /\ ~PinRightsPresent)
       => (bcall.result = "ACCESS_DENIED" /\ bcall.pin = <<>>)

\* PERM_WRITE has been asked for through a VMO handle that has MAP and READ
\* but not WRITE, and the call has been denied.
C7_Witness ==
    /\ PinOnTypedHandles
    /\ "MAP" \in handles[bcall.h1].rights
    /\ handles[bcall.h2].rights = {"MAP", "READ"}
    /\ HasOpt(bcall.options, PERM_WRITE)
    /\ bcall.result = "ACCESS_DENIED"

(***************************************************************************)
(* Claims about the syscall trampoline (SpecSys)                           *)
(***************************************************************************)
\* C8: every switch_to_kernel() of syscall_entry is followed by exactly one
\* switch_to_user() before control leaves syscall_entry, on every exit path
\* including a panic in the dispatcher; the dispatcher runs only between the
\* two switches; on normal return the dispatcher's result is returned.
C8_WorldSwitchBracket ==
    \A t \in Threads :
        /\ spc[t] \in {"user", "panicked"} =>
              (nuser[t] = nkern[t] /\ world[t] = "user")
        /\ spc[t] = "dispatch" =>
              (nkern[t] = 1 /\ nuser[t] = 0 /\ world[t] = "kernel")
        /\ (spc[t] = "user" /\ sout[t] # <<>>) => sout[t] = sret[t]

(***************************************************************************)
(* Claims about the ELF loader (SpecLoader)                                *)
(***************************************************************************)
\* The symbol's value lies inside some LOAD segment of the image.
SymbolInLoadSegment ==
    \E i \in LoadIndices(image) :
        /\ image.segs[i].virtual_addr <= image.symbol
        /\ image.symbol < image.segs[i].virtual_addr + image.segs[i].mem_size

\* C9: once run has started the thread, the word at base + value of
\* rcore_syscall_entry is the trampoline's address, for every image that has
\* the symbol: in whichever LOAD segment it lies, and after all relocations.
C9_SyscallSlotHoldsTrampoline ==
    (lpc \in {"started", "done"} /\ SymbolInLoadSegment)
        => MemAt(child.base + image.symbol) = Trampoline

\* C10: when the load fails after the child VMAR was reserved (make_vmo,
\* map_at or relocate failed), the parent VMAR holds no child VMAR and no
\* mapping of this load.
C10_FailedLoadLeavesNoChild ==
    (lpc \in {"panicked", "faulted"}
        /\ lfail.step \in {"make_vmo", "map_at", "relocate"})
        => (~child.present /\ maps = <<>>)

\* C11: when relocate meets a relocation of a type other than RELATIVE, GOT
\* or PLT, or a GOT/PLT entry whose dynsym entry has shndx = 0, it returns an
\* error value to its caller (it does not panic), and the thread is not
\* started.
C11_RelocateReturnsError ==
    (lfail.step = "relocate"
        /\ lfail.reason \in {"unknown type", "need to find symbol"})
        => (lfail.how = "returned" /\ thr.state = "Initial")

\* relocate has returned Ok to run.
RelocateOk == lpc \in {"stack", "start", "started", "done"}

\* The program header the k-th VMO of a fully staged image was made from.
NthLoad(k) ==
    CHOOSE i \in LoadIndices(image) :
        Cardinality({j \in LoadIndices(image) : j <= i}) = k

\* The contents of the k-th VMO when relocate is entered: the staged segment,
\* with the syscall-entry patch on the first VMO.
VmoBeforeRelocate(k) ==
    IF k = first_vmo
    THEN VmoWrite(make_vmo(image.segs[NthLoad(k)]), symoff, <<Trampoline>>)
    ELSE make_vmo(image.segs[NthLoad(k)])

\* The value the specification gives the relocation entry e.
RelocatedWord(e) ==
    IF e.type = REL_RELATIVE
    THEN child.base + e.addend
    ELSE child.base + DynSyms[e.symbol + 1].value + e.addend

\* The last entry of .rela.dyn whose r_offset is o (0 if there is none).
LastEntryAt(o) ==
    LET hits == {k \in 1..Len(image.rela) : image.rela[k].offset = o}
    IN  IF hits = {} THEN 0 ELSE SetMax(hits)

\* C12: after relocate(base) returned Ok, the word at base + r_offset of every
\* entry holds base + r_addend (RELATIVE) or base + dynsym[r_symbol].value +
\* r_addend (GOT, PLT), the last entry for an offset winning, and every other
\* word of the image is as it was when relocate was entered.
C12_RelocationValues ==
    RelocateOk =>
        \A k \in 1..Len(maps) : \A c \in 0..(maps[k].len - 1) :
            LET o == maps[k].offset + c
            IN  MemAt(child.base + o) =
                    IF LastEntryAt(o) = 0
                    THEN VmoBeforeRelocate(maps[k].vmo)[c + 1]
                    ELSE RelocatedWord(image.rela[LastEntryAt(o)])

\* relocate returned Ok after two entries for the same offset, the later one
\* a GOT entry with another value, next to a cell no entry names.
C12_Witness ==
    /\ RelocateOk
    /\ Len(image.rela) = 2
    /\ image.rela[1].offset = image.rela[2].offset
    /\ image.rela[1].type = REL_RELATIVE
    /\ image.rela[2].type = REL_GOT
    /\ MemAt(child.base + image.rela[2].offset)
            = child.base + 1 + image.rela[2].addend
    /\ RelocatedWord(image.rela[1]) # RelocatedWord(image.rela[2])
    /\ \E k \in 1..Len(maps) : \E c \in 0..(maps[k].len - 1) :
            LastEntryAt(maps[k].offset + c) = 0

\* Where load_from_elf maps the program header ph, and how long.
MapOffsetOf(ph) == (ph.virtual_addr \div PAGE_SIZE) * PAGE_SIZE

MapLenOf(ph) ==
    pages(ph.mem_size + (ph.virtual_addr % PAGE_SIZE)) * PAGE_SIZE

\* C13 (sizes): for every LOAD segment of the image, the mapping offset is
\* page-aligned, the VMO made for it has the length of the mapping, and
\* offset + length is within load_segment_size().
C13_SegmentsFitSize ==
    (lpc # "idle" /\ LoadIndices(image) # {}) =>
        \A i \in LoadIndices(image) :
            /\ page_aligned(MapOffsetOf(image.segs[i]))
            /\ Len(make_vmo(image.segs[i])) = MapLenOf(image.segs[i])
            /\ MapOffsetOf(image.segs[i]) + MapLenOf(image.segs[i])
                    <= load_segment_size(image)

\* C13 (mappings): every mapping load_from_elf created maps its whole VMO from
\* VMO offset 0 at the segment's page-aligned offset and ends inside the
\* reserved child VMAR; map_at is never refused for leaving the VMAR.
C13_MappingsFitVmar ==
    /\ \A k \in 1..Len(maps) :
        /\ maps[k].offset = MapOffsetOf(image.segs[NthLoad(k)])
        /\ maps[k].vmo_offset = 0
        /\ maps[k].len = Len(lvmos[maps[k].vmo])
        /\ maps[k].len = MapLenOf(image.segs[NthLoad(k)])
        /\ maps[k].offset + maps[k].len <= child.size
        /\ child.size = load_segment_size(image)
    /\ lfail.step = "map_at" =>
        \E k \in 1..Len(maps) :
            Overlaps(maps[k], MapOffsetOf(image.segs[seg_i]),
                     MapLenOf(image.segs[seg_i]))

\* C13: every mapping of load_from_elf lies wholly inside the reserved child
\* VMAR and inside its VMO.
C13_MappingsInsideVmarAndVmo == C13_SegmentsFitSize /\ C13_MappingsFitVmar

\* Two segments are mapped, one of them starting inside a page, and a
\* mapping ends exactly at the end of the child VMAR.
C13_Witness ==
    /\ Len(maps) = 2
    /\ \E k \in 1..2 : image.segs[NthLoad(k)].virtual_addr % PAGE_SIZE # 0
    /\ \E k \in 1..2 : maps[k].offset + maps[k].len = child.size
    /\ \E k \in 1..2 : maps[k].offset > 0

\* C14 (started): the thread runs only after the child VMAR was reserved,
\* every LOAD segment staged and mapped, the syscall-entry patch written, all
\* relocations applied and the init info pushed; it was started once, with
\* entry = base + e_entry, the SP of the stack push and two zero arguments.
C14_StartedAfterAllSteps ==
    thr.state = "Running" =>
        /\ lpc \in {"started", "done"}
        /\ thr.starts = 1
        /\ child.present
        /\ seg_i > Len(image.segs)
        /\ Len(maps) = Cardinality(LoadIndices(image))
        /\ first_vmo # 0
        /\ (VmoWriteOk(lvmos[first_vmo], symoff, <<Trampoline>>)
                /\ LastEntryAt(maps[first_vmo].offset + symoff) = 0)
              => lvmos[first_vmo][symoff + 1] = Trampoline
        /\ image.sections = "ok"
        /\ rel_i > Len(image.rela)
        /\ stk.state # "none"
        /\ sp = push_at(AlignDown16(stk.ptr + STACK_SIZE))
        /\ thr.entry = child.base + image.entry
        /\ thr.sp = sp
        /\ thr.arg1 = 0
        /\ thr.arg2 = 0

\* C14 (not started): before the start, and after any failed step, the thread
\* is Initial and was never started; a run that completes has started it.
C14_NotStartedOtherwise ==
    /\ lpc \in {"panicked", "faulted"} => thr.state = "Initial"
    /\ thr.state = "Initial" => thr.starts = 0
    /\ lpc \in {"started", "done"} => thr.state = "Running"

C15_FlagsProjectedExactly ==
    \A k \in 1..Len(maps) :
        LET fl == image.segs[NthLoad(k)].flags
        IN  /\ maps[k].flags \subseteq {"READ", "WRITE", "EXECUTE"}
            /\ ("READ" \in maps[k].flags) <=> ("R" \in fl)
            /\ ("WRITE" \in maps[k].flags) <=> ("W" \in fl)
            /\ ("EXECUTE" \in maps[k].flags) <=> ("X" \in fl)

\* A write-only and an execute-only segment are mapped, neither with READ.
C15_Witness ==
    /\ Len(maps) = 2
    /\ \E k \in 1..2 : /\ image.segs[NthLoad(k)].flags = {"W"}
                       /\ maps[k].flags = {"WRITE"}
    /\ \E k \in 1..2 : /\ image.segs[NthLoad(k)].flags = {"X"}
                       /\ maps[k].flags = {"EXECUTE"}

(***************************************************************************)
(* Further claims about VmObject (SpecVmo)                                 *)
(***************************************************************************)
\* C16 (link): a VmObject has parent_koid = 0 exactly when a new_* constructor
\* made it; a child's parent_koid is the koid of an older VmObject, non-zero
\* and not the child's own koid.
C16_ParentLink ==
    \A i \in 1..Len(vmos) :
        /\ vmos[i].koid # 0
        /\ (vmos[i].ctor = "new") <=> (vmos[i].parent_koid = 0)
        /\ vmos[i].ctor = "child" =>
              /\ vmos[i].parent_koid # vmos[i].koid
              /\ \E j \in 1..(i - 1) : vmos[j].koid = vmos[i].parent_koid

\* C16 (creation): the VmObject p.create_child(resizable, ..) returns has p's
\* koid as parent_koid, p's name and the resizable flag that was passed.
C16_ChildAtCreation ==
    (vcall.op = "create_child" /\ vcall.result = "OK") =>
        /\ vmos[Len(vmos)].ctor = "child"
        /\ vmos[Len(vmos)].parent_koid = vmos[vcall.target].koid
        /\ vmos[Len(vmos)].name = vmos[vcall.target].name
        /\ vmos[Len(vmos)].resizable = vcall.arg[1]

\* C16: parent_koid is 0 exactly for the VmObjects of the new_* constructors,
\* and a child carries its parent's koid, its parent's name at creation and
\* the resizable flag passed to create_child.
C16_ParentKoidOfChildren == C16_ParentLink /\ C16_ChildAtCreation

\* A renamed, resizable parent has just got a child that is not resizable.
C16_Witness ==
    /\ vcall.op = "create_child"
    /\ vcall.result = "OK"
    /\ vmos[vcall.target].name = "a"
    /\ vmos[vcall.target].resizable
    /\ vmos[vcall.target].parent_koid = 0
    /\ ~vmos[Len(vmos)].resizable
    /\ vmos[Len(vmos)].name = "a"
    /\ vmos[Len(vmos)].parent_koid = vmos[vcall.target].koid

(***************************************************************************)
(* Further claims about the DDK syscalls (SpecBti)                         *)
(***************************************************************************)
\* C17: whenever sys_iommu_create, sys_bti_create or sys_bti_pin returns an
\* error, also when writing the new handle value to the user out-pointer
\* fails, the handle table of the process is as it was before the call.
C17_FailedCallLeavesNoHandle ==
    (bcall.op # "none" /\ bcall.result # "OK")
        => Len(handles) = bcall.nhandles

(***************************************************************************)
(* Further claims about the ELF loader (SpecLoader)                        *)
(***************************************************************************)
\* C18: while the started thread may run, also after run has returned, the
\* stack buffer whose top gave the thread's SP is still allocated, and the
\* SP points into it.
C18_StackOutlivesThread ==
    thr.state = "Running" =>
        /\ stk.state = "live"
        /\ thr.sp > stk.ptr
        /\ thr.sp <= stk.ptr + STACK_SIZE

=============================================================================
